---- MODULE Spec2Model ----
(***************************************************************************)
(* Model of src/src/App.tsx, the card creator's React component, and of    *)
(* docker-assets/99-replace-spotify-vars.sh, the script that runs when the *)
(* container that serves it starts.                                        *)
(*                                                                         *)
(* Strings are sequences of symbols.  A symbol is one character, except    *)
(* that the fixed literals the two regular expressions look for (the       *)
(* https://open.spotify.com/... prefixes) are one symbol each.  The empty  *)
(* string is <<>>.                                                         *)
(***************************************************************************)
EXTENDS Integers, Sequences, FiniteSets, TLC

(***************************************************************************)
(* Bounds of the model.                                                    *)
(***************************************************************************)
\* clicks on "Load Playlist Data" in one run
MaxFetches == 3
\* tracks of playlist A (more than two pages of 50)
SizeA == 101
\* tracks of playlist B (three page groups: 12, 12, 1)
SizeB == 25
\* longest entry list of the layout specification
MaxEntries == 40
\* most files that index*.js matches when the container starts
MaxAssets == 2

(***************************************************************************)
(* Program constants.                                                      *)
(***************************************************************************)
\* getPlaylist: const limit = 50
limit == 50
\* arrayChunks(playlistItems, 12)
CardsPerPage == 12
\* arrayChunks(pageChunks, 3)
CardsPerRow == 3

Min(a, b) == IF a <= b THEN a ELSE b

(***************************************************************************)
(* Symbols.                                                                *)
(***************************************************************************)
PlaylistPrefix == "https://open.spotify.com/playlist/"
TrackPrefix == "https://open.spotify.com/track/"
EpisodePrefix == "https://open.spotify.com/episode/"
\* a prefix neither regular expression accepts
HttpTrackPrefix == "http://open.spotify.com/track/"

Digits == {"0", "1", "2", "3", "4", "5", "6", "7", "8", "9"}
\* the members of [a-zA-Z0-9-] the model uses
IdChars == Digits \cup {"A", "B", "s", "i", "x", "-"}
LineTerminators == {"\n", "\r"}

DigitOf(d) == CASE d = 0 -> "0" [] d = 1 -> "1" [] d = 2 -> "2" [] d = 3 -> "3"
                [] d = 4 -> "4" [] d = 5 -> "5" [] d = 6 -> "6" [] d = 7 -> "7"
                [] d = 8 -> "8" [] d = 9 -> "9"

RECURSIVE Decimal(_)
Decimal(n) == IF n < 10 THEN <<DigitOf(n)>>
              ELSE Append(Decimal(n \div 10), DigitOf(n % 10))

(***************************************************************************)
(* The two regular expressions.                                            *)
(***************************************************************************)
\* the longest run of id characters of s that starts at 1-based position p
\* ends at IdRunEnd(s, p); it is p - 1 when the run is empty
RECURSIVE IdRunEnd(_, _)
IdRunEnd(s, p) == IF p <= Len(s) /\ s[p] \in IdChars THEN IdRunEnd(s, p + 1)
                  ELSE p - 1

\* . matches anything but a line terminator: .* from position p ends here
RECURSIVE DotStarEnd(_, _)
DotStarEnd(s, p) == IF p <= Len(s) /\ s[p] \notin LineTerminators
                    THEN DotStarEnd(s, p + 1)
                    ELSE p - 1

\* ^ of a multiline expression, at 0-based index i
IsLineStart(s, i) == i = 0 \/ s[i] \in LineTerminators

\* $ of a multiline expression, after the first e symbols
IsLineEnd(s, e) == e = Len(s) \/ s[e + 1] \in LineTerminators

\* one attempt of playlistRegex at 0-based index i
PlaylistMatchAt(s, i) ==
    /\ IsLineStart(s, i)
    /\ i + 1 <= Len(s)
    /\ s[i + 1] = PlaylistPrefix
    /\ IdRunEnd(s, i + 2) >= i + 2
    /\ IsLineEnd(s, DotStarEnd(s, IdRunEnd(s, i + 2) + 1))

NoMatch == [matched |-> FALSE, group1 |-> <<>>, lastIndex |-> 0]

\* playlistRegex.exec(s) of a global (g) expression whose lastIndex is li:
\* the search starts at li, a failure resets lastIndex to 0, a success
\* leaves it at the end of the match
PlaylistRegexExec(s, li) ==
    IF li > Len(s) THEN NoMatch
    ELSE LET at == {i \in li..Len(s) : PlaylistMatchAt(s, i)}
         IN  IF at = {} THEN NoMatch
             ELSE LET i == CHOOSE j \in at : \A k \in at : j <= k
                      e == IdRunEnd(s, i + 2)
                  IN  [matched |-> TRUE,
                       group1 |-> SubSeq(s, i + 2, e),
                       lastIndex |-> DotStarEnd(s, e + 1)]

\* trackUrlRegex.exec(s): not global and not multiline, so it matches at
\* index 0 only and $ is the end of the input
TrackUrlRegexExec(s) ==
    IF /\ Len(s) >= 2
       /\ s[1] \in {TrackPrefix, EpisodePrefix}
       /\ IdRunEnd(s, 2) >= 2
       /\ DotStarEnd(s, IdRunEnd(s, 2) + 1) = Len(s)
    THEN [matched |-> TRUE, group1 |-> SubSeq(s, 1, IdRunEnd(s, 2)), lastIndex |-> 0]
    ELSE NoMatch

(***************************************************************************)
(* The playlist API (sdk.playlists.getPlaylistItems).  Playlist A has      *)
(* SizeA tracks and playlist B has SizeB; a playlist whose id is a decimal *)
(* number has that many tracks.  Track n of playlist P has the id P        *)
(* followed by the decimal digits of n, and the canonical URL TrackPrefix  *)
(* followed by its id.                                                     *)
(***************************************************************************)
Null == "null"

DigitValue(d) == CHOOSE v \in 0..9 : DigitOf(v) = d

RECURSIVE DecimalValue(_)
DecimalValue(id) ==
    IF id = <<>> THEN 0
    ELSE 10 * DecimalValue(SubSeq(id, 1, Len(id) - 1)) + DigitValue(id[Len(id)])

PlaylistSize(id) ==
    IF id = <<"A">> THEN SizeA
    ELSE IF id = <<"B">> THEN SizeB
    ELSE DecimalValue(id)

ApiTrackId(id, n) == id \o Decimal(n)

\* every second track has a second artist
ApiArtists(id, n) ==
    IF n % 2 = 0
    THEN <<[name |-> <<"Artist ">> \o ApiTrackId(id, n)], [name |-> <<"Guest">>]>>
    ELSE <<[name |-> <<"Artist ">> \o ApiTrackId(id, n)]>>

ApiEntry(id, n) ==
    [track |-> [id |-> ApiTrackId(id, n),
                name |-> <<"Song ">> \o ApiTrackId(id, n),
                artists |-> ApiArtists(id, n),
                album |-> [release_date |-> <<ToString(1900 + n), "-01-01">>],
                external_urls |-> [spotify |-> <<TrackPrefix>> \o ApiTrackId(id, n)]]]

\* the whole playlist, in the API's order
ApiItems(id) == [n \in 1..PlaylistSize(id) |-> ApiEntry(id, n)]

\* one page: the items from offset off, at most lim of them, the limit the
\* request asked for, and next, which is null on the last page
GetPlaylistItems(id, lim, off) ==
    LET size == PlaylistSize(id)
        count == IF off >= size THEN 0 ELSE Min(lim, size - off)
    IN  [items |-> [k \in 1..count |-> ApiEntry(id, off + k)],
         limit |-> lim,
         offset |-> off,
         next |-> IF off + lim < size THEN "more" ELSE Null]

(***************************************************************************)
(* Override items and the JSON text of the override field.  A text is a    *)
(* sequence of tokens: "[", "]", "," and the names of objects.             *)
(***************************************************************************)
OverrideItem(link, date, artist, name) ==
    [link |-> link, date |-> date, artist |-> artist, name |-> name]

ObjectNames == {"oDate", "oEmpty", "oAll", "oPlain", "oName", "oArtist",
                "oFirst", "oLast", "oEpisode", "oBreak"}

ObjectOf(tok) ==
    CASE tok = "oDate" ->
           OverrideItem(<<TrackPrefix, "A", "1", "?", "s", "i", "=", "x">>,
                        <<"2004">>, <<>>, <<>>)
      [] tok = "oEmpty" ->
           OverrideItem(<<TrackPrefix, "A", "2">>, <<>>, <<>>, <<>>)
      [] tok = "oAll" ->
           OverrideItem(<<TrackPrefix, "B", "1", "/", "x">>,
                        <<"1969">>, <<"art">>, <<"hurra">>)
      [] tok = "oPlain" ->
           OverrideItem(<<HttpTrackPrefix, "A", "3">>, <<"1970">>, <<>>, <<"plain">>)
      [] tok = "oName" ->
           OverrideItem(<<TrackPrefix, "A", "1">>, <<>>, <<>>, <<"renamed">>)
      [] tok = "oArtist" ->
           OverrideItem(<<TrackPrefix, "A", "2", "?", "s", "i">>, <<>>, <<"solo">>, <<>>)
      [] tok = "oFirst" ->
           OverrideItem(<<TrackPrefix, "B", "2", "?", "x">>, <<"1981">>, <<>>, <<"first">>)
      [] tok = "oLast" ->
           OverrideItem(<<TrackPrefix, "B", "2">>, <<>>, <<>>, <<"last">>)
      [] tok = "oEpisode" ->
           OverrideItem(<<EpisodePrefix, "A", "5", "?", "x">>, <<>>, <<>>, <<"episode">>)
      [] tok = "oBreak" ->
           OverrideItem(<<TrackPrefix, "A", "4", "\n", "x">>, <<>>, <<>>, <<"broken">>)

\* the values JSON.parse returns here, and the ref's initial value ""
JsonString(s) == [type |-> "string", str |-> s, elems |-> <<>>]
JsonArray(elems) == [type |-> "array", str |-> <<>>, elems |-> elems]

\* JSON.parse(input): [ok |-> FALSE] stands for the SyntaxError it throws
JSONParse(input) ==
    LET n == Len(input)
        wellFormed ==
            /\ n >= 2
            /\ input[1] = "["
            /\ input[n] = "]"
            /\ \/ n = 2
               \/ /\ n % 2 = 1
                  /\ \A k \in 2..(n - 1) :
                        IF k % 2 = 0 THEN input[k] \in ObjectNames ELSE input[k] = ","
    IN  IF wellFormed
        THEN [ok |-> TRUE,
              value |-> JsonArray([k \in 1..((n - 1) \div 2) |-> ObjectOf(input[2 * k])])]
        ELSE [ok |-> FALSE, value |-> JsonString(<<>>)]

\* the elements for (var index in overrideJson) visits, in order
ForIn(value) == IF value.type = "array" THEN value.elems ELSE <<>>

(***************************************************************************)
(* getPlaylist after the last page: the override index and the merge.      *)
(***************************************************************************)
\* the key of one override item: the matched prefix, or the link as it is
OverrideKey(item) ==
    LET match == TrackUrlRegexExec(item.link)
    IN  IF ~match.matched THEN item.link ELSE match.group1

EmptyOverrides == [k \in {} |-> k]

\* a bug: an item whose key is taken is skipped
PutOverrideOnce(overrides, key, item) ==
    [k \in (DOMAIN overrides) \cup {key} |->
        IF k \in DOMAIN overrides THEN overrides[k] ELSE item]

\* overrides[key] = item
PutOverride(overrides, key, item) ==
    [k \in (DOMAIN overrides) \cup {key} |-> IF k = key THEN item ELSE overrides[k]]

\* the index after the first n override items
RECURSIVE IndexOverrides(_, _)
IndexOverrides(overrideJson, n) ==
    IF n = 0 THEN EmptyOverrides
    ELSE PutOverride(IndexOverrides(overrideJson, n - 1),
                     OverrideKey(overrideJson[n]), overrideJson[n])

\* a bug: artists[0].name = override.artist, which keeps the other artists
OverrideArtistsFirstOnly(artists, artist) ==
    IF artists = <<>> THEN <<[name |-> artist]>>
    ELSE [artists EXCEPT ![1].name = artist]

\* { ...artists[0], name: override.artist }
OverrideArtists(artists, artist) ==
    <<IF artists = <<>> THEN [name |-> artist] ELSE [artists[1] EXCEPT !.name = artist]>>

\* a bug: the three assignments without their conditions
OverrideTrackUnconditional(track, override) ==
    [track EXCEPT !.name = override.name,
                  !.artists = OverrideArtists(track.artists, override.artist),
                  !.album.release_date = override.date]

\* the three conditional assignments of the merge, on one track
OverrideTrack(track, override) ==
    LET t1 == IF override.name # <<>> THEN [track EXCEPT !.name = override.name] ELSE track
        t2 == IF override.artist # <<>>
              THEN [t1 EXCEPT !.artists = OverrideArtists(t1.artists, override.artist)]
              ELSE t1
    IN  IF override.date # <<>>
        THEN [t2 EXCEPT !.album.release_date = override.date]
        ELSE t2

\* one pass of "apply overrides" over one entry
ApplyOverride(entry, overrides) ==
    IF entry.track.external_urls.spotify \in DOMAIN overrides
    THEN [entry EXCEPT !.track =
              OverrideTrack(entry.track, overrides[entry.track.external_urls.spotify])]
    ELSE entry

ApplyOverrides(items, overrides) ==
    [k \in 1..Len(items) |-> ApplyOverride(items[k], overrides)]

(***************************************************************************)
(* The container startup script, docker-assets/99-replace-spotify-vars.sh, *)
(* which the nginx image runs before it serves the built assets.  A file   *)
(* is a sequence of lines and a line a sequence of symbols; each of the    *)
(* two placeholders the build leaves in the assets is one symbol.  The     *)
(* values of the two variables are plain symbols, "," (the delimiter of    *)
(* the s command) and "&" (the match, in a replacement).                   *)
(***************************************************************************)
ClientIdToken == "REPLACEME_VITE_SPOTIFY_CLIENT_ID"
RedirectUriToken == "REPLACEME_VITE_SPOTIFY_REDIRECT_URI"

\* an environment variable: unset, or set to a value that may be empty
Unset == [set |-> FALSE, value |-> <<>>]
SetTo(v) == [set |-> TRUE, value |-> v]

\* "${X}": the value, and the empty string when X is unset
Expand(var) == IF var.set THEN var.value ELSE <<>>

\* [ -z "${X}" ]
IsZeroLength(var) == Expand(var) = <<>>

\* the replacement part of the s command: & stands for what was matched
RECURSIVE Replacement(_, _)
Replacement(value, token) ==
    IF value = <<>> THEN <<>>
    ELSE (IF Head(value) = "&" THEN <<token>> ELSE <<Head(value)>>)
         \o Replacement(Tail(value), token)

\* s,token,value, on one line: without the g flag, the first match only
SubstituteLine(line, token, value) ==
    IF \E p \in 1..Len(line) : line[p] = token
    THEN LET p == CHOOSE q \in 1..Len(line) :
                      line[q] = token /\ \A r \in 1..(q - 1) : line[r] # token
         IN  SubSeq(line, 1, p - 1) \o Replacement(value, token)
             \o SubSeq(line, p + 1, Len(line))
    ELSE line

\* sed -i "s,token,value," index*.js: its exit status and the files after
\* it.  A "," in the value ends the replacement early and what follows is an
\* unknown option of s; sed then exits 1 and edits nothing.  When the
\* pattern matches no file sed cannot read index*.js and exits 2.
Sed(token, value, files) ==
    IF \E p \in 1..Len(value) : value[p] = ","
    THEN [status |-> 1, files |-> files]
    ELSE IF files = <<>>
    THEN [status |-> 2, files |-> files]
    ELSE [status |-> 0,
          files |-> [f \in DOMAIN files |->
                       [l \in DOMAIN files[f] |->
                          SubstituteLine(files[f][l], token, value)]]]

\* the assets as the build leaves them: the first file reads both variables
\* on one line, a further file has one placeholder twice on a line
BuiltFile(k) ==
    IF k = 1
    THEN << <<"clientId=", ClientIdToken, ";redirectUri=", RedirectUriToken>> >>
    ELSE << <<"chunk">>, <<ClientIdToken, "|", ClientIdToken>> >>

BuiltAssets(n) == [k \in 1..n |-> BuiltFile(k)]

\* the script at a line, and after it ended with a status
ScriptAt(line) == [pc |-> line, status |-> 0]
Exited(status) == [pc |-> "exited", status |-> status]

\* the container the component is served from: both variables were set
\* and the script replaced both placeholders
ServedClientId == SetTo(<<"client">>)
ServedRedirectUri == SetTo(<<"https://host/callback">>)
ServedAssets ==
    Sed(RedirectUriToken, Expand(ServedRedirectUri),
        Sed(ClientIdToken, Expand(ServedClientId), BuiltAssets(1)).files).files

(***************************************************************************)
(* State.  The checkbox of lines 229-241 reads and sets stripRemastered,   *)
(* which App.tsx does not declare and nothing else reads; it takes no part *)
(* in fetching, merging or rendering and has no variable here.             *)
(***************************************************************************)
VARIABLES
    url,                       \* useState('')
    playlistItems,             \* useState(null): [isNull, value]
    name,                      \* useState('')
    codeType,                  \* useState('qr')
    showAdvancedOptions,       \* useState(false)
    overrideJsonErrorMessage,  \* useState('')
    overrideJsonRef,           \* useRef({value: ""}): the value of .current
    overrideText,              \* useState('')
    lastIndex,                 \* playlistRegex.lastIndex
    calls,                     \* the invocations of getPlaylist, in click order
    SPOTIFY_CLIENT_ID,         \* the container's environment: [set, value]
    SPOTIFY_REDIRECT_URI,      \* the container's environment: [set, value]
    assets,                    \* /usr/share/nginx/html/assets/index*.js
    script                     \* 99-replace-spotify-vars.sh: [pc, status]

\* the container the startup script runs in
container == <<SPOTIFY_CLIENT_ID, SPOTIFY_REDIRECT_URI, assets, script>>

vars == <<url, playlistItems, name, codeType, showAdvancedOptions,
          overrideJsonErrorMessage, overrideJsonRef, overrideText, lastIndex, calls,
          SPOTIFY_CLIENT_ID, SPOTIFY_REDIRECT_URI, assets, script>>

NullItems == [isNull |-> TRUE, value |-> <<>>]
SomeItems(items) == [isNull |-> FALSE, value |-> items]

\* an invocation of getPlaylist: where it is, its locals (match[1], items,
\* offset, overrides), the page requests it sent and the pages it got
IdleCall == [pc |-> "idle", match1 |-> <<>>, items |-> <<>>, offset |-> 0,
             overrides |-> EmptyOverrides, requests |-> <<>>, responses |-> <<>>]

Calls == 1..MaxFetches

(***************************************************************************)
(* What the user can type or choose.                                       *)
(***************************************************************************)
UrlA == <<PlaylistPrefix, "A">>
UrlB == <<PlaylistPrefix, "B", "?", "s", "i">>
\* a track link: no playlist
UrlTrack == <<TrackPrefix, "A", "1">>
Urls == {UrlA, UrlB, UrlTrack}

TextOne == <<"[", "oDate", ",", "oEmpty", ",", "oAll", ",", "oPlain", "]">>
TextTwo == <<"[", "oName", ",", "oArtist", ",", "oFirst", ",", "oLast", ",",
             "oEpisode", ",", "oBreak", "]">>
TextCut == <<"[", "oDate", ",">>
Texts == {TextOne, TextTwo, TextCut, <<>>}

Names == {<<>>, <<"Quiz">>}
CodeTypes == {"qr", "spotify"}

Init ==
    /\ url = <<>>
    /\ playlistItems = NullItems
    /\ name = <<>>
    /\ codeType = "qr"
    /\ showAdvancedOptions = FALSE
    /\ overrideJsonErrorMessage = ""
    /\ overrideJsonRef = JsonString(<<>>)
    /\ overrideText = <<>>
    /\ lastIndex = 0
    /\ calls = [i \in Calls |-> IdleCall]
    /\ SPOTIFY_CLIENT_ID = ServedClientId
    /\ SPOTIFY_REDIRECT_URI = ServedRedirectUri
    /\ assets = ServedAssets
    /\ script = Exited(0)

(***************************************************************************)
(* The handlers of the form.                                               *)
(***************************************************************************)
\* onChange of the playlist field
SetUrl(u) ==
    /\ url' = u
    /\ UNCHANGED <<playlistItems, name, codeType, showAdvancedOptions,
                   overrideJsonErrorMessage, overrideJsonRef, overrideText,
                   lastIndex, calls>>
    /\ UNCHANGED container

\* a bug: the catch block empties the stored list
ParsedOverrideOrEmpty(current, input) ==
    IF JSONParse(input).ok THEN JSONParse(input).value ELSE JsonArray(<<>>)

\* the try block: the ref takes the parse, unless JSON.parse throws
ParsedOverride(current, input) ==
    IF JSONParse(input).ok THEN JSONParse(input).value ELSE current

\* '' at the end of the try block, 'Invalid JSON!' in the catch block
OverrideMessage(input) == IF JSONParse(input).ok THEN "" ELSE "Invalid JSON!"

\* a bug: the edit applies the new overrides to the list on display
handleOverrideChangeMerging(input) ==
    /\ showAdvancedOptions
    /\ overrideJsonRef' = ParsedOverride(overrideJsonRef, input)
    /\ overrideJsonErrorMessage' = OverrideMessage(input)
    /\ overrideText' = input
    /\ playlistItems' =
          IF playlistItems.isNull THEN playlistItems
          ELSE SomeItems(ApplyOverrides(playlistItems.value,
                   IndexOverrides(ForIn(ParsedOverride(overrideJsonRef, input)),
                                  Len(ForIn(ParsedOverride(overrideJsonRef, input))))))
    /\ UNCHANGED <<url, name, codeType, showAdvancedOptions, lastIndex, calls>>
    /\ UNCHANGED container

\* onChange of the override field, which exists while the advanced options show
handleOverrideChange(input) ==
    /\ showAdvancedOptions
    /\ overrideJsonRef' = ParsedOverride(overrideJsonRef, input)
    /\ overrideJsonErrorMessage' = OverrideMessage(input)
    /\ overrideText' = input
    /\ UNCHANGED <<url, playlistItems, name, codeType, showAdvancedOptions,
                   lastIndex, calls>>
    /\ UNCHANGED container

\* "Set Name": the name field's current text
setCardName(n) ==
    /\ name' = n
    /\ UNCHANGED <<url, playlistItems, codeType, showAdvancedOptions,
                   overrideJsonErrorMessage, overrideJsonRef, overrideText,
                   lastIndex, calls>>
    /\ UNCHANGED container

\* onChange of the code type select, which exists while the advanced options show
SetCodeType(c) ==
    /\ showAdvancedOptions
    /\ codeType' = c
    /\ UNCHANGED <<url, playlistItems, name, showAdvancedOptions,
                   overrideJsonErrorMessage, overrideJsonRef, overrideText,
                   lastIndex, calls>>
    /\ UNCHANGED container

\* "Show Advanced Options" / "Hide Advanced Options"
ToggleAdvancedOptions ==
    /\ showAdvancedOptions' = ~showAdvancedOptions
    /\ UNCHANGED <<url, playlistItems, name, codeType,
                   overrideJsonErrorMessage, overrideJsonRef, overrideText,
                   lastIndex, calls>>
    /\ UNCHANGED container

(***************************************************************************)
(* getPlaylist.                                                            *)
(***************************************************************************)
\* the arguments of one sdk.playlists.getPlaylistItems call that matter
PageRequest(id, off) == [id |-> id, limit |-> limit, offset |-> off]

\* if (!match) return;
ReturnedCall == [IdleCall EXCEPT !.pc = "returned"]

\* the locals, and the first request, sent before the first await
StartedCall(match) ==
    [pc |-> "awaiting", match1 |-> match.group1, items |-> <<>>,
     offset |-> 0, overrides |-> EmptyOverrides,
     requests |-> <<PageRequest(match.group1, 0)>>, responses |-> <<>>]

\* a bug: no return when there is no match
CallAfterExecNoReturn(match) == StartedCall(match)

\* getPlaylist up to its first await
CallAfterExec(match) == IF ~match.matched THEN ReturnedCall ELSE StartedCall(match)

\* a click on "Load Playlist Data"
getPlaylist ==
    \E i \in Calls :
        /\ calls[i].pc = "idle"
        /\ \A j \in 1..(i - 1) : calls[j].pc # "idle"
        /\ LET match == PlaylistRegexExec(url, lastIndex)
           IN  /\ lastIndex' = match.lastIndex
               /\ calls' = [calls EXCEPT ![i] = CallAfterExec(match)]
        /\ UNCHANGED <<url, playlistItems, name, codeType, showAdvancedOptions,
                       overrideJsonErrorMessage, overrideJsonRef, overrideText>>
        /\ UNCHANGED container

\* a bug: offset = result.limit
NextOffsetAssigned(offset, result) == result.limit

\* offset += result.limit
NextOffset(offset, result) == offset + result.limit

\* what the invocation keeps of a page besides its items
PageSeen(result) ==
    [limit |-> result.limit, offset |-> result.offset, next |-> result.next,
     count |-> Len(result.items)]

\* a bug: items = result.items, which keeps the last page only
CallAfterPageAssigned(c, result) ==
    [c EXCEPT !.items = result.items,
              !.offset = NextOffset(c.offset, result),
              !.responses = Append(c.responses, PageSeen(result)),
              !.requests = IF result.next # Null
                           THEN Append(c.requests,
                                       PageRequest(c.match1, NextOffset(c.offset, result)))
                           ELSE c.requests]

\* the body of the do loop after the await, and the loop's test: another
\* request when result.next is not null
CallAfterPage(c, result) ==
    [c EXCEPT !.items = c.items \o result.items,
              !.offset = NextOffset(c.offset, result),
              !.responses = Append(c.responses, PageSeen(result)),
              !.requests = IF result.next # Null
                           THEN Append(c.requests,
                                       PageRequest(c.match1, NextOffset(c.offset, result)))
                           ELSE c.requests]

\* a bug: overrideJson stays [], the stored value is not read
CallAfterMergeUnread(c, overrideJson) ==
    [c EXCEPT !.pc = "done",
              !.overrides = EmptyOverrides,
              !.items = ApplyOverrides(c.items, EmptyOverrides)]

\* the code after the loop: index the overrides, merge, return
CallAfterMerge(c, overrideJson) ==
    LET overrides == IndexOverrides(overrideJson, Len(overrideJson))
    IN  [c EXCEPT !.pc = "done",
                  !.overrides = overrides,
                  !.items = ApplyOverrides(c.items, overrides)]

\* a bug: while the error message shows, the last page ends the invocation
\* without a commit
PageArrivesUnlessInvalid(i) ==
    /\ calls[i].pc = "awaiting"
    /\ LET req == calls[i].requests[Len(calls[i].requests)]
           result == GetPlaylistItems(req.id, req.limit, req.offset)
           c == CallAfterPage(calls[i], result)
       IN  IF result.next # Null
           THEN /\ calls' = [calls EXCEPT ![i] = c]
                /\ UNCHANGED playlistItems
           ELSE IF overrideJsonErrorMessage # ""
           THEN /\ calls' = [calls EXCEPT ![i] = [c EXCEPT !.pc = "failed"]]
                /\ UNCHANGED playlistItems
           ELSE LET done == CallAfterMerge(c, ForIn(overrideJsonRef))
                IN  /\ calls' = [calls EXCEPT ![i] = done]
                    /\ playlistItems' = SomeItems(done.items)
    /\ UNCHANGED <<url, name, codeType, showAdvancedOptions,
                   overrideJsonErrorMessage, overrideJsonRef, overrideText, lastIndex>>
    /\ UNCHANGED container

\* a bug: setPlaylistItems(items) inside the loop, after every page
PageArrivesShowsEachPage(i) ==
    /\ calls[i].pc = "awaiting"
    /\ LET req == calls[i].requests[Len(calls[i].requests)]
           result == GetPlaylistItems(req.id, req.limit, req.offset)
           c == CallAfterPage(calls[i], result)
       IN  IF result.next # Null
           THEN /\ calls' = [calls EXCEPT ![i] = c]
                /\ playlistItems' = SomeItems(c.items)
           ELSE LET done == CallAfterMerge(c, ForIn(overrideJsonRef))
                IN  /\ calls' = [calls EXCEPT ![i] = done]
                    /\ playlistItems' = SomeItems(done.items)
    /\ UNCHANGED <<url, name, codeType, showAdvancedOptions,
                   overrideJsonErrorMessage, overrideJsonRef, overrideText, lastIndex>>
    /\ UNCHANGED container

\* the awaited page of invocation i arrives
PageArrives(i) ==
    /\ calls[i].pc = "awaiting"
    /\ LET req == calls[i].requests[Len(calls[i].requests)]
           result == GetPlaylistItems(req.id, req.limit, req.offset)
           c == CallAfterPage(calls[i], result)
       IN  IF result.next # Null
           THEN /\ calls' = [calls EXCEPT ![i] = c]
                /\ UNCHANGED playlistItems
           ELSE LET done == CallAfterMerge(c, ForIn(overrideJsonRef))
                IN  /\ calls' = [calls EXCEPT ![i] = done]
                    /\ playlistItems' = SomeItems(done.items)
    /\ UNCHANGED <<url, name, codeType, showAdvancedOptions,
                   overrideJsonErrorMessage, overrideJsonRef, overrideText, lastIndex>>
    /\ UNCHANGED container

\* a bug: the failure is caught and what was fetched so far is shown
PageFailsCommitsPartial(i) ==
    /\ calls[i].pc = "awaiting"
    /\ calls' = [calls EXCEPT ![i].pc = "failed"]
    /\ playlistItems' = SomeItems(calls[i].items)
    /\ UNCHANGED <<url, name, codeType, showAdvancedOptions,
                   overrideJsonErrorMessage, overrideJsonRef, overrideText, lastIndex>>
    /\ UNCHANGED container

\* the awaited request of invocation i fails: the await throws, nothing
\* catches it, and the rest of getPlaylist does not run
PageFails(i) ==
    /\ calls[i].pc = "awaiting"
    /\ calls' = [calls EXCEPT ![i].pc = "failed"]
    /\ UNCHANGED <<url, playlistItems, name, codeType, showAdvancedOptions,
                   overrideJsonErrorMessage, overrideJsonRef, overrideText, lastIndex>>
    /\ UNCHANGED container

\* Fetching and overrides.  setCardName and SetCodeType write only name and
\* codeType, which no handler here reads; they run in SpecLayout.
Next ==
    \/ \E u \in Urls : SetUrl(u)
    \/ \E input \in Texts : handleOverrideChange(input)
    \/ ToggleAdvancedOptions
    \/ getPlaylist
    \/ \E i \in Calls : PageArrives(i)
    \/ \E i \in Calls : PageFails(i)

Spec == Init /\ [][Next]_vars

(***************************************************************************)
(* The document the component renders from playlistItems, name, codeType.  *)
(***************************************************************************)
\* Math.ceil(length / chunkSize)
Ceil(length, chunkSize) == (length + chunkSize - 1) \div chunkSize

\* a bug: Math.floor, which drops a last chunk that is not full
ChunkCountFloor(length, chunkSize) == length \div chunkSize

\* how many chunks arrayChunks makes
ChunkCount(length, chunkSize) == Ceil(length, chunkSize)

\* the chunk that begins at index begin: array.slice(begin, begin + chunkSize)
arrayChunks(array, chunkSize) ==
    [index \in 1..ChunkCount(Len(array), chunkSize) |->
        SubSeq(array, (index - 1) * chunkSize + 1,
               Min(index * chunkSize, Len(array)))]

\* dayjs(release_date).format('YYYY'): a date begins with its year
Year(release_date) == IF release_date = <<>> THEN "Invalid Date" ELSE release_date[1]

\* artists.map(artist => artist.name).join(', ')
RECURSIVE JoinNames(_)
JoinNames(artists) ==
    IF artists = <<>> THEN <<>>
    ELSE IF Len(artists) = 1 THEN artists[1].name
    ELSE artists[1].name \o <<", ">> \o JoinNames(Tail(artists))

\* a front card: its key and its Text elements
FrontCard(item, cardName) ==
    [key |-> item.track.id,
     texts |-> <<item.track.name, <<Year(item.track.album.release_date)>>,
                 JoinNames(item.track.artists)>>
               \o (IF cardName # <<>> THEN <<cardName>> ELSE <<>>)]

ScannablesPrefix == "https://scannables.scdn.co/uri/plain/jpeg/FFFFFF/black/320/spotify:track:"

\* generateSessionPDFQrCode(data): the QR code of data
QrCode(data) == [kind |-> "qr", data |-> data, errorCorrectionLevel |-> "H"]
RemoteImage(src) == [kind |-> "remote", data |-> src, errorCorrectionLevel |-> ""]

\* a bug: the two branches the wrong way round
BackImageSwapped(id, type) ==
    IF type = "qr" THEN RemoteImage(<<ScannablesPrefix>> \o id)
    ELSE QrCode(<<"spotify:track:">> \o id)

\* the Image of a back card
BackImage(id, type) ==
    IF type = "qr" THEN QrCode(<<"spotify:track:">> \o id)
    ELSE RemoteImage(<<ScannablesPrefix>> \o id)

\* a back card: its key and its Image elements
BackCard(item, type) ==
    [key |-> item.track.id, images |-> <<BackImage(item.track.id, type)>>]

\* the flexDirection of a front row
FrontFlexDirection == "row"

\* a bug: the back rows run the same way as the front rows
BackFlexDirectionRow == "row"

\* the flexDirection of a back row
BackFlexDirection == "row-reverse"

FrontPage(pageChunks, cardName) ==
    [side |-> "front",
     rows |-> [r \in DOMAIN arrayChunks(pageChunks, CardsPerRow) |->
                 [flexDirection |-> FrontFlexDirection,
                  cards |-> [k \in DOMAIN arrayChunks(pageChunks, CardsPerRow)[r] |->
                               FrontCard(arrayChunks(pageChunks, CardsPerRow)[r][k],
                                         cardName)]]]]

BackPage(pageChunks, type) ==
    [side |-> "back",
     rows |-> [r \in DOMAIN arrayChunks(pageChunks, CardsPerRow) |->
                 [flexDirection |-> BackFlexDirection,
                  cards |-> [k \in DOMAIN arrayChunks(pageChunks, CardsPerRow)[r] |->
                               BackCard(arrayChunks(pageChunks, CardsPerRow)[r][k],
                                        type)]]]]

\* the pages of <Document>: a front and a back page for each chunk of 12
DocumentPages(items, cardName, type) ==
    [p \in 1..(2 * Len(arrayChunks(items, CardsPerPage))) |->
        IF p % 2 = 1
        THEN FrontPage(arrayChunks(items, CardsPerPage)[(p + 1) \div 2], cardName)
        ELSE BackPage(arrayChunks(items, CardsPerPage)[p \div 2], type)]

\* {playlistItems && (<PDFViewer> ...)}: no viewer while playlistItems is null
Viewer ==
    IF playlistItems.isNull THEN [shown |-> FALSE, pages |-> <<>>]
    ELSE [shown |-> TRUE, pages |-> DocumentPages(playlistItems.value, name, codeType)]

\* The column, counted from the left from 0, of child k of a row.  A row is
\* as wide as the guide row under it, 0.1 + 6.1 + 6.2 + 6.1 + 0.1 cm, which is
\* CardsPerRow cards of 6.2 cm; "row" fills it from the left and
\* "row-reverse" from the right.
ColumnOf(row, k) == IF row.flexDirection = "row" THEN k - 1 ELSE CardsPerRow - k

(***************************************************************************)
(* The layout of one fetched playlist: the user enters the link of a       *)
(* playlist of any size up to MaxEntries, loads it once, and uses the      *)
(* handlers that change what is rendered from it.                          *)
(***************************************************************************)
LayoutUrls == {<<PlaylistPrefix>> \o Decimal(n) : n \in 0..MaxEntries}

NextLayout ==
    \/ \E u \in LayoutUrls : calls[1].pc = "idle" /\ SetUrl(u)
    \/ calls[1].pc = "idle" /\ getPlaylist
    \/ \E i \in Calls : PageArrives(i)
    \/ \E n \in Names : setCardName(n)
    \/ \E c \in CodeTypes : SetCodeType(c)
    \/ ToggleAdvancedOptions

SpecLayout == Init /\ [][NextLayout]_vars

(***************************************************************************)
(* The start of the container.  The component is not served yet and its    *)
(* state is as constructed; the script runs line after line.               *)
(***************************************************************************)
ClientIds == {Unset, SetTo(<<>>), SetTo(<<"client">>), SetTo(<<"cli", ",", "ent">>)}
RedirectUris == {Unset, SetTo(<<>>), SetTo(<<"https://host/callback">>),
                 SetTo(<<"https://host/cb?a=1", "&", "b=2">>)}

InitStartup ==
    /\ url = <<>>
    /\ playlistItems = NullItems
    /\ name = <<>>
    /\ codeType = "qr"
    /\ showAdvancedOptions = FALSE
    /\ overrideJsonErrorMessage = ""
    /\ overrideJsonRef = JsonString(<<>>)
    /\ overrideText = <<>>
    /\ lastIndex = 0
    /\ calls = [i \in Calls |-> IdleCall]
    /\ SPOTIFY_CLIENT_ID \in ClientIds
    /\ SPOTIFY_REDIRECT_URI \in RedirectUris
    /\ \E n \in 0..MaxAssets : assets = BuiltAssets(n)
    /\ script = ScriptAt("line3")

component == <<url, playlistItems, name, codeType, showAdvancedOptions,
               overrideJsonErrorMessage, overrideJsonRef, overrideText,
               lastIndex, calls>>

\* a bug: the message is written and the script goes on
AfterTestNoExit(var, line) == ScriptAt(line)

\* if [ -z "${X}" ]; then echo ...; exit 1; fi, followed by the given line
AfterTest(var, line) == IF IsZeroLength(var) THEN Exited(1) ELSE ScriptAt(line)

\* lines 3 to 6
TestClientId ==
    /\ script.pc = "line3"
    /\ script' = AfterTest(SPOTIFY_CLIENT_ID, "line8")
    /\ UNCHANGED <<SPOTIFY_CLIENT_ID, SPOTIFY_REDIRECT_URI, assets>>
    /\ UNCHANGED component

\* lines 8 to 11
TestRedirectUri ==
    /\ script.pc = "line8"
    /\ script' = AfterTest(SPOTIFY_REDIRECT_URI, "line13")
    /\ UNCHANGED <<SPOTIFY_CLIENT_ID, SPOTIFY_REDIRECT_URI, assets>>
    /\ UNCHANGED component

\* line 13; the script has no set -e and goes on whatever sed's status is
ReplaceClientId ==
    /\ script.pc = "line13"
    /\ assets' = Sed(ClientIdToken, Expand(SPOTIFY_CLIENT_ID), assets).files
    /\ script' = ScriptAt("line14")
    /\ UNCHANGED <<SPOTIFY_CLIENT_ID, SPOTIFY_REDIRECT_URI>>
    /\ UNCHANGED component

\* line 14, the last: its status is the script's
ReplaceRedirectUri ==
    /\ script.pc = "line14"
    /\ assets' = Sed(RedirectUriToken, Expand(SPOTIFY_REDIRECT_URI), assets).files
    /\ script' = Exited(Sed(RedirectUriToken, Expand(SPOTIFY_REDIRECT_URI), assets).status)
    /\ UNCHANGED <<SPOTIFY_CLIENT_ID, SPOTIFY_REDIRECT_URI>>
    /\ UNCHANGED component

NextStartup ==
    \/ TestClientId
    \/ TestRedirectUri
    \/ ReplaceClientId
    \/ ReplaceRedirectUri

SpecStartup == InitStartup /\ [][NextStartup]_vars

(***************************************************************************)
(* Edits that race a fetch: the user loads playlist A, and while a fetch   *)
(* is in flight edits the override field; the name, the code type and the  *)
(* advanced options change at any time.                                    *)
(***************************************************************************)
InFlight == \E i \in Calls : calls[i].pc = "awaiting"

NextEdit ==
    \/ SetUrl(UrlA)
    \/ getPlaylist
    \/ \E i \in Calls : PageArrives(i)
    \/ \E input \in Texts : InFlight /\ handleOverrideChange(input)
    \/ \E n \in Names : setCardName(n)
    \/ \E c \in CodeTypes : SetCodeType(c)
    \/ ToggleAdvancedOptions

SpecEdit == Init /\ [][NextEdit]_vars

(***************************************************************************)
(* Every handler of the form, at any time, around fetches of playlist B.   *)
(***************************************************************************)
NextForm ==
    \/ SetUrl(UrlB)
    \/ \E input \in Texts : handleOverrideChange(input)
    \/ \E n \in Names : setCardName(n)
    \/ \E c \in CodeTypes : SetCodeType(c)
    \/ ToggleAdvancedOptions
    \/ getPlaylist
    \/ \E i \in Calls : PageArrives(i)
    \/ \E i \in Calls : PageFails(i)

SpecForm == Init /\ [][NextForm]_vars

(***************************************************************************)
(* The claims.                                                             *)
(***************************************************************************)
\* the playlist pattern, read off a one-line URL: the prefix, then an id
MatchesPlaylistPattern(u) ==
    Len(u) >= 2 /\ u[1] = PlaylistPrefix /\ u[2] \in IdChars

\* the playlist id of a URL that matches the pattern
PlaylistIdOf(u) ==
    SubSeq(u, 2, CHOOSE e \in 2..Len(u) :
                    /\ \A p \in 2..e : u[p] \in IdChars
                    /\ (e = Len(u) \/ u[e + 1] \notin IdChars))

\* the number of pages of a list of size entries at pageSize entries a page
PagesOf(size, pageSize) ==
    CHOOSE k \in 1..(size + 1) :
        /\ k * pageSize >= size
        /\ (k = 1 \/ (k - 1) * pageSize < size)

\* C1: an invocation's page requests all ask for 50 items of its playlist;
\* the first has offset 0 and each later one the previous offset plus the
\* limit the previous page reported; a request follows a page exactly when
\* that page's next is not null; an invocation that got all its pages sent
\* as many requests as the playlist has pages of 50.
C1_PageRequests ==
    \A i \in Calls :
        LET c == calls[i]
            nreq == Len(c.requests)
            nres == Len(c.responses)
        IN  /\ \A j \in 1..nreq :
                  /\ c.requests[j].limit = 50
                  /\ c.requests[j].id = c.match1
                  /\ j = 1 => c.requests[j].offset = 0
                  /\ j > 1 => /\ j - 1 <= nres
                              /\ c.requests[j].offset =
                                    c.requests[j - 1].offset + c.responses[j - 1].limit
            /\ nres <= nreq
            /\ \A j \in 1..nres :
                  IF c.responses[j].next = Null
                  THEN j = nres /\ nreq = j
                  ELSE nreq >= j + 1
            /\ c.pc = "done" =>
                  /\ nreq = PagesOf(PlaylistSize(c.match1), 50)
                  /\ nres = nreq
                  /\ c.responses[nres].next = Null

\* an invocation fetched a playlist of three pages to its end
C1_Witness ==
    \E i \in Calls :
        /\ calls[i].pc = "done"
        /\ Len(calls[i].requests) = 3
        /\ calls[i].requests[3].offset = 100

\* C2: a click on "Load Playlist Data" while the URL matches the playlist
\* pattern starts an invocation that sends a page request for the playlist
\* id in the URL.
C2_MatchingUrlIsFetched ==
    [][\A i \in Calls :
          (calls[i].pc = "idle" /\ calls'[i].pc # "idle"
             /\ MatchesPlaylistPattern(url))
            => /\ Len(calls'[i].requests) >= 1
               /\ calls'[i].requests[1].id = PlaylistIdOf(url)]_vars

\* C3: an invocation started while the URL does not match the pattern
\* returns at once: it sends no request, then or later, and the step that
\* starts it leaves the displayed list and the error message as they were.
C3_NoMatchNoEffect ==
    [][\A i \in Calls :
          /\ (calls[i].pc = "idle" /\ calls'[i].pc # "idle"
                /\ ~MatchesPlaylistPattern(url))
               => /\ calls'[i].pc = "returned"
                  /\ calls'[i].requests = <<>>
                  /\ playlistItems' = playlistItems
                  /\ overrideJsonErrorMessage' = overrideJsonErrorMessage
          /\ calls[i].pc = "returned" => calls'[i] = calls[i]]_vars

\* The first invocation fetched a list.  The second and the third returned
\* without a request: the second left lastIndex at 0 whatever made it
\* return, so the third returned because its URL does not match.
C3_Witness ==
    /\ calls[1].pc = "done"
    /\ calls[2].pc = "returned"
    /\ calls[3].pc = "returned"
    /\ ~playlistItems.isNull

\* C4: the step in which a page request of an invocation fails changes
\* neither the displayed list nor the error message, and the invocation
\* changes nothing afterwards: it sends no request and commits nothing.
C4_FailureAborts ==
    [][\A i \in Calls :
          /\ (calls[i].pc = "awaiting" /\ calls'[i].pc = "failed")
               => /\ playlistItems' = playlistItems
                  /\ overrideJsonErrorMessage' = overrideJsonErrorMessage
                  /\ calls'[i].requests = calls[i].requests
          /\ calls[i].pc = "failed" => calls'[i] = calls[i]]_vars

\* a list is on display and an invocation failed after its second page
C4_Witness ==
    \E i \in Calls :
        /\ calls[i].pc = "failed"
        /\ Len(calls[i].responses) = 2
        /\ ~playlistItems.isNull

\* C5: in what an invocation commits, an entry whose canonical URL is a
\* key of the override index has the override's name, first-artist name and
\* release date where the override's field is not empty, and the fetched
\* value where it is empty, each field on its own; nothing else of the entry
\* changes, so an override with only a date changes only the date and the
\* year shown, and one with no field set changes nothing; an entry whose
\* URL is no key is as fetched.
C5_MergeByField ==
    \A i \in Calls :
        calls[i].pc = "done" =>
            LET orig == ApiItems(calls[i].match1)
                got == calls[i].items
                idx == calls[i].overrides
            IN  /\ Len(got) = Len(orig)
                /\ \A k \in 1..Len(orig) :
                      LET o == orig[k].track
                          t == got[k].track
                      IN  IF o.external_urls.spotify \in DOMAIN idx
                          THEN LET ov == idx[o.external_urls.spotify]
                               IN  /\ t.name = IF ov.name # <<>> THEN ov.name ELSE o.name
                                   /\ t.artists[1].name =
                                        IF ov.artist # <<>> THEN ov.artist
                                        ELSE o.artists[1].name
                                   /\ ov.artist = <<>> => t.artists = o.artists
                                   /\ t.album.release_date =
                                        IF ov.date # <<>> THEN ov.date
                                        ELSE o.album.release_date
                                   /\ t.id = o.id
                                   /\ t.external_urls = o.external_urls
                                   /\ (ov.name = <<>> /\ ov.artist = <<>> /\ ov.date # <<>>)
                                        => /\ got[k] = [orig[k] EXCEPT
                                                  !.track.album.release_date = ov.date]
                                           /\ Year(t.album.release_date) = ov.date[1]
                                   /\ (ov.name = <<>> /\ ov.artist = <<>> /\ ov.date = <<>>)
                                        => got[k] = orig[k]
                          ELSE got[k] = orig[k]

\* playlist A was committed with an override of only a date on its first
\* track, one with no field set on its second, and none on its third
C5_Witness ==
    \E i \in Calls :
        /\ calls[i].pc = "done"
        /\ calls[i].match1 = <<"A">>
        /\ <<TrackPrefix, "A", "1">> \in DOMAIN calls[i].overrides
        /\ calls[i].overrides[<<TrackPrefix, "A", "1">>] = ObjectOf("oDate")
        /\ calls[i].items[1].track.album.release_date = <<"2004">>
        /\ calls[i].items[1].track.name = ApiEntry(<<"A">>, 1).track.name
        /\ <<TrackPrefix, "A", "2">> \in DOMAIN calls[i].overrides
        /\ calls[i].overrides[<<TrackPrefix, "A", "2">>] = ObjectOf("oEmpty")
        /\ <<TrackPrefix, "A", "3">> \notin DOMAIN calls[i].overrides

\* the key the claim gives a link: the prefix up to the end of the id when
\* the link starts with a track or episode prefix and an id, else the link
KeyByPrefix(link) ==
    IF Len(link) >= 2 /\ link[1] \in {TrackPrefix, EpisodePrefix} /\ link[2] \in IdChars
    THEN SubSeq(link, 1, CHOOSE e \in 2..Len(link) :
                            /\ \A p \in 2..e : link[p] \in IdChars
                            /\ (e = Len(link) \/ link[e + 1] \notin IdChars))
    ELSE link

\* C6: every key of an override index is the prefix
\* https://open.spotify.com/(track|episode)/<id> of its item's link when the
\* link starts with that form, and the link itself otherwise; the key of a
\* key is that key.
C6_KeyIsPrefix ==
    \A i \in Calls :
        calls[i].pc = "done" =>
            \A key \in DOMAIN calls[i].overrides :
                /\ key = KeyByPrefix(calls[i].overrides[key].link)
                /\ KeyByPrefix(key) = key

\* C7: an edit of the override field to a text that is not valid JSON sets
\* the error message to "Invalid JSON!" and leaves the stored value as it
\* was; an edit to valid JSON stores its parse and empties the message.
C7_InvalidJsonKeepsParse ==
    [][overrideText' # overrideText =>
          IF JSONParse(overrideText').ok
          THEN /\ overrideJsonRef' = JSONParse(overrideText').value
               /\ overrideJsonErrorMessage' = ""
          ELSE /\ overrideJsonRef' = overrideJsonRef
               /\ overrideJsonErrorMessage' = "Invalid JSON!"]_vars

\* the field holds a text cut short, the message shows, and the stored value
\* is still the parse of the text entered before
C7_Witness ==
    /\ overrideText = TextCut
    /\ overrideJsonErrorMessage = "Invalid JSON!"
    /\ overrideJsonRef = JSONParse(TextOne).value

\* the least q with q * d >= n
CeilDiv(n, d) == CHOOSE q \in 0..n : q * d >= n /\ (q = 0 \/ (q - 1) * d < n)

\* the cards of the rows of a page, row after row
RECURSIVE CardsOfRows(_)
CardsOfRows(rows) ==
    IF Len(rows) = 0 THEN <<>>
    ELSE rows[1].cards \o CardsOfRows(SubSeq(rows, 2, Len(rows)))

\* the cards of the pages of one side, page after page
RECURSIVE CardsOfSide(_, _)
CardsOfSide(pages, side) ==
    IF Len(pages) = 0 THEN <<>>
    ELSE (IF pages[1].side = side THEN CardsOfRows(pages[1].rows) ELSE <<>>)
         \o CardsOfSide(SubSeq(pages, 2, Len(pages)), side)

\* the number of cards of each front page, page after page
GroupSizes(pages) ==
    [g \in 1..(Len(pages) \div 2) |-> Len(CardsOfRows(pages[2 * g - 1].rows))]

\* C8: n displayed entries make ceil(n / 12) page groups; every group but
\* the last has 12 entries and the last has 1 to 12; a group has at most 4
\* rows, each of 3 entries but the last, which has 1 to 3; the groups and
\* their rows, in order, hold the cards of the entries in the entries'
\* order; 25 entries make groups of 12, 12 and 1, and no entry makes no page.
C8_PagesAndRows ==
    ~playlistItems.isNull =>
        LET list == playlistItems.value
            n == Len(list)
            pages == Viewer.pages
            groups == CeilDiv(n, 12)
        IN  /\ Len(pages) = 2 * groups
            /\ \A g \in 1..groups :
                  LET rows == pages[2 * g - 1].rows
                  IN  /\ g < groups => GroupSizes(pages)[g] = 12
                      /\ g = groups => GroupSizes(pages)[g] \in 1..12
                      /\ Len(rows) \in 1..4
                      /\ \A r \in 1..Len(rows) :
                            /\ r < Len(rows) => Len(rows[r].cards) = 3
                            /\ r = Len(rows) => Len(rows[r].cards) \in 1..3
            /\ CardsOfSide(pages, "front") = [k \in 1..n |-> FrontCard(list[k], name)]
            /\ n = 25 => GroupSizes(pages) = <<12, 12, 1>>
            /\ n = 0 => pages = <<>>

\* a playlist of 25 entries was fetched and is on display
C8_Witness ==
    /\ calls[1].pc = "done"
    /\ ~playlistItems.isNull
    /\ Len(playlistItems.value) = 25

\* C9: the pages are, for each group in turn, its front page and then its
\* back page, 2 * ceil(n / 12) in all; a back row has as many cards as the
\* front row of the same index and no other cell, and the card of the entry
\* that is in column c of the front row is in column 2 - c of the back row.
C9_BackMirrorsFront ==
    ~playlistItems.isNull =>
        LET pages == Viewer.pages
            groups == CeilDiv(Len(playlistItems.value), 12)
        IN  /\ Len(pages) = 2 * groups
            /\ \A g \in 1..groups :
                  LET front == pages[2 * g - 1]
                      back == pages[2 * g]
                  IN  /\ front.side = "front"
                      /\ back.side = "back"
                      /\ Len(back.rows) = Len(front.rows)
                      /\ \A r \in 1..Len(front.rows) :
                            /\ Len(back.rows[r].cards) = Len(front.rows[r].cards)
                            /\ \A k \in 1..Len(front.rows[r].cards) :
                                  \E j \in 1..Len(back.rows[r].cards) :
                                      /\ back.rows[r].cards[j].key =
                                            front.rows[r].cards[k].key
                                      /\ ColumnOf(front.rows[r], k) \in 0..2
                                      /\ ColumnOf(back.rows[r], j) =
                                            2 - ColumnOf(front.rows[r], k)

\* a playlist of 26 entries was fetched and is on display: the last row of
\* the last group has two cards
C9_Witness ==
    /\ calls[1].pc = "done"
    /\ ~playlistItems.isNull
    /\ Len(playlistItems.value) = 26

\* C10: the code type is 'qr' at first, and always the back cards, in the
\* order of the entries, each hold one image made from the entry's track id:
\* while the code type is 'qr' the QR code of spotify:track:<id>, else the
\* remote image whose address is the scannables address followed by the id.
C10_OneCodePerCard ==
    /\ codeType = "qr"
    /\ [](~playlistItems.isNull =>
            LET list == playlistItems.value
                codes == CardsOfSide(Viewer.pages, "back")
            IN  /\ Len(codes) = Len(list)
                /\ \A k \in 1..Len(list) :
                      /\ codes[k].key = list[k].track.id
                      /\ Len(codes[k].images) = 1
                      /\ codeType = "qr" =>
                            /\ codes[k].images[1].kind = "qr"
                            /\ codes[k].images[1].data =
                                  <<"spotify:track:">> \o list[k].track.id
                      /\ codeType # "qr" =>
                            /\ codes[k].images[1].kind = "remote"
                            /\ codes[k].images[1].data =
                                  <<"https://scannables.scdn.co/uri/plain/jpeg/FFFFFF/black/320/spotify:track:">>
                                  \o list[k].track.id)

\* a playlist was fetched, its entries are on display and the other code
\* type is selected
C10_Witness ==
    /\ calls[1].pc = "done"
    /\ ~playlistItems.isNull
    /\ Len(playlistItems.value) > 12
    /\ codeType = "spotify"

\* C11: while SPOTIFY_CLIENT_ID or SPOTIFY_REDIRECT_URI is unset or empty no
\* step of the startup script changes an asset or reaches a substitution
\* line, the test of the missing variable ends the script, and the script
\* ends with a status that is not 0; a step reaches the first substitution
\* only when both variables are set and not empty, and the test of the
\* second variable then does reach it.
C11_FailFast ==
    [][LET missing == IsZeroLength(SPOTIFY_CLIENT_ID)
                        \/ IsZeroLength(SPOTIFY_REDIRECT_URI)
       IN  /\ missing =>
                 /\ assets' = assets
                 /\ script'.pc \in {"line3", "line8", "exited"}
                 /\ script'.pc = "exited" => script'.status # 0
           /\ (IsZeroLength(SPOTIFY_CLIENT_ID) /\ script.pc = "line3")
                 => script'.pc = "exited"
           /\ (IsZeroLength(SPOTIFY_REDIRECT_URI) /\ script.pc = "line8")
                 => script'.pc = "exited"
           /\ (script'.pc = "line13" /\ script.pc # "line13") => ~missing
           /\ (~missing /\ script.pc = "line8") => script'.pc = "line13"]_vars

\* the script ended with status 1 at the test of the redirect URI, which is
\* unset while the client id is set, and the assets are as built
C11_Witness ==
    /\ script = Exited(1)
    /\ ~IsZeroLength(SPOTIFY_CLIENT_ID)
    /\ ~SPOTIFY_REDIRECT_URI.set
    /\ assets = BuiltAssets(MaxAssets)

\* the first n pages an invocation asked for, one after the other, each as
\* the API returns it
RECURSIVE PagesInOrder(_, _)
PagesInOrder(c, n) ==
    IF n = 0 THEN <<>>
    ELSE PagesInOrder(c, n - 1)
         \o GetPlaylistItems(c.requests[n].id, c.requests[n].limit,
                             c.requests[n].offset).items

\* the number of items of the first n pages an invocation got
RECURSIVE ItemsSeen(_, _)
ItemsSeen(c, n) == IF n = 0 THEN 0 ELSE ItemsSeen(c, n - 1) + c.responses[n].count

TrackIds(items) == [k \in DOMAIN items |-> items[k].track.id]

\* C12: always, an invocation has sent at most one request more than it has got
\* pages, exactly one more while it waits and none more once it committed;
\* what it has collected is its pages in request order, each as the API
\* returned it, and what it commits is that list with the overrides applied:
\* as many entries as the pages had, the tracks of the playlist in the
\* playlist's order.
C12_PagesInRequestOrder ==
  [](\A i \in Calls :
        LET c == calls[i]
            got == Len(c.responses)
        IN  /\ Len(c.requests) - got \in {0, 1}
            /\ c.pc = "awaiting" => Len(c.requests) = got + 1
            /\ c.pc = "done" => Len(c.requests) = got
            /\ c.pc \in {"awaiting", "failed"} => c.items = PagesInOrder(c, got)
            /\ c.pc = "done" =>
                  /\ c.items = ApplyOverrides(PagesInOrder(c, got), c.overrides)
                  /\ Len(c.items) = ItemsSeen(c, got)
                  /\ TrackIds(c.items) =
                        [n \in 1..PlaylistSize(c.match1) |-> ApiTrackId(c.match1, n)])

\* an invocation committed the three pages of playlist A: the first entry
\* of its second and of its third page follow the 50th and the 100th entry
C12_Witness ==
    \E i \in Calls :
        /\ calls[i].pc = "done"
        /\ Len(calls[i].responses) = 3
        /\ playlistItems = SomeItems(calls[i].items)
        /\ calls[i].items[50].track.id = <<"A", "5", "0">>
        /\ calls[i].items[51].track.id = <<"A", "5", "1">>
        /\ calls[i].items[101].track.id = <<"A", "1", "0", "1">>

\* the item of a list that comes last among those with a key
LastWithKey(list, key) ==
    list[CHOOSE k \in 1..Len(list) :
            /\ OverrideKey(list[k]) = key
            /\ \A j \in (k + 1)..Len(list) : OverrideKey(list[j]) # key]

\* C13: an invocation's index is empty until the step that commits; after
\* that step its keys are the keys of the items of the override list stored
\* at that step and no other, one entry a key, and the entry of a key is the
\* last item of that list with the key.
C13_LastItemWins ==
    [][\A i \in Calls :
          (calls[i].pc = "awaiting" /\ calls'[i].pc = "done") =>
              LET list == ForIn(overrideJsonRef)
                  idx == calls'[i].overrides
              IN  /\ calls[i].overrides = EmptyOverrides
                  /\ DOMAIN idx = {OverrideKey(list[k]) : k \in 1..Len(list)}
                  /\ \A key \in DOMAIN idx : idx[key] = LastWithKey(list, key)]_vars

\* Two invocations committed.  The index of the earlier has an entry for
\* track B1.  The later was merged with a list of two items of key B2: its
\* index has the second of them for B2, none for B1, and for A1 the item of
\* its own list.
C13_Witness ==
    \E i, j \in Calls :
        /\ i < j
        /\ calls[i].pc = "done"
        /\ calls[j].pc = "done"
        /\ <<TrackPrefix, "B", "1">> \in DOMAIN calls[i].overrides
        /\ <<TrackPrefix, "B", "1">> \notin DOMAIN calls[j].overrides
        /\ <<TrackPrefix, "B", "2">> \in DOMAIN calls[j].overrides
        /\ calls[j].overrides[<<TrackPrefix, "B", "2">>] = ObjectOf("oLast")
        /\ OverrideKey(ObjectOf("oFirst")) = <<TrackPrefix, "B", "2">>
        /\ calls[j].overrides[<<TrackPrefix, "A", "1">>] = ObjectOf("oName")

\* the list an invocation of a playlist commits when the stored override
\* value is value
MergedWith(id, value) ==
    ApplyOverrides(ApiItems(id), IndexOverrides(ForIn(value), Len(ForIn(value))))

\* C14: a text that is valid JSON is the stored value's source, and an edit
\* to an invalid text leaves the stored value as it was, so that the stored
\* value is the parse of the last valid text, or the initial "" when no
\* text was valid.  While the field holds invalid JSON, the step in which
\* the last page of an invocation arrives commits: it displays the whole
\* playlist merged with the stored value, which is the playlist as fetched
\* when no text was ever valid, and it leaves the error message in place.
C14_InvalidJsonStillCommits ==
    [][/\ JSONParse(overrideText).ok => overrideJsonRef = JSONParse(overrideText).value
       /\ (overrideText' # overrideText /\ ~JSONParse(overrideText').ok)
             => overrideJsonRef' = overrideJsonRef
       /\ overrideJsonRef.type = "string" => ~JSONParse(overrideText).ok
       /\ \A i \in Calls :
             (/\ ~JSONParse(overrideText).ok
              /\ calls[i].pc = "awaiting"
              /\ Len(calls'[i].responses) > Len(calls[i].responses)
              /\ calls'[i].responses[Len(calls'[i].responses)].next = Null)
               => /\ calls'[i].pc = "done"
                  /\ playlistItems' = SomeItems(MergedWith(calls[i].match1, overrideJsonRef))
                  /\ Len(playlistItems'.value) = PlaylistSize(calls[i].match1)
                  /\ overrideJsonRef.type = "string"
                        => playlistItems'.value = ApiItems(calls[i].match1)
                  /\ overrideJsonErrorMessage' = overrideJsonErrorMessage]_vars

\* One fetch was started and no other.  In its flight, the only time at
\* which the field is edited here, a valid text and then a text cut short
\* were entered; the fetch committed after that, with the date of the valid
\* text on its first track, and the message still shows.
C14_Witness ==
    /\ calls[1].pc = "done"
    /\ calls[2].pc = "idle"
    /\ overrideText = TextCut
    /\ overrideJsonErrorMessage = "Invalid JSON!"
    /\ overrideJsonRef = JSONParse(TextOne).value
    /\ playlistItems = SomeItems(calls[1].items)
    /\ playlistItems.value[1].track.album.release_date = <<"2004">>

\* C15: always, the displayed list is absent exactly while no invocation has
\* committed; a displayed list is what one invocation that committed holds,
\* and that is the whole playlist of that invocation's id, every entry of
\* it once and in order, merged with that invocation's index; it is never
\* what an invocation that has not committed has collected so far.
C15_ListOfOneInvocation ==
  [](/\ playlistItems.isNull <=> \A i \in Calls : calls[i].pc # "done"
    /\ ~playlistItems.isNull =>
          /\ \E i \in Calls :
                /\ calls[i].pc = "done"
                /\ playlistItems.value = calls[i].items
                /\ calls[i].items =
                      ApplyOverrides(ApiItems(calls[i].match1), calls[i].overrides)
                /\ Len(calls[i].items) = PlaylistSize(calls[i].match1)
          /\ \A i \in Calls :
                calls[i].pc \in {"awaiting", "failed"}
                    => playlistItems.value # calls[i].items)

\* two invocations were in flight at once: the first, of playlist A, has a
\* page and waits for the next, and the later one, of playlist B, has
\* committed the list on display
C15_Witness ==
    /\ calls[1].pc = "awaiting"
    /\ calls[1].match1 = <<"A">>
    /\ Len(calls[1].responses) >= 1
    /\ calls[3].pc = "done"
    /\ calls[3].match1 = <<"B">>
    /\ playlistItems = SomeItems(calls[3].items)

\* C16: the step in which the last page of an invocation arrives indexes
\* and merges the override value stored at that step.  Here the field is
\* edited only while a fetch is in flight, so the value stored when the
\* first invocation started is the initial "": when an array is stored by
\* the time its last page arrives, what it commits is merged with that
\* array and is not the list the value at its start would give.
C16_MergesValueAtLastPage ==
    [][\A i \in Calls :
          (calls[i].pc = "awaiting" /\ calls'[i].pc = "done") =>
              /\ calls'[i].overrides =
                    IndexOverrides(ForIn(overrideJsonRef), Len(ForIn(overrideJsonRef)))
              /\ playlistItems' = SomeItems(MergedWith(calls[i].match1, overrideJsonRef))
              /\ overrideJsonRef' = overrideJsonRef
              /\ (i = 1 /\ overrideJsonRef.type = "array")
                    => playlistItems'.value
                          # MergedWith(calls[i].match1, JsonString(<<>>))]_vars

\* One fetch was started and no other; the second text was entered while it
\* was in flight, and the list it committed after its third page has the
\* name that text gives the first track.
C16_Witness ==
    /\ calls[1].pc = "done"
    /\ calls[2].pc = "idle"
    /\ Len(calls[1].responses) = 3
    /\ overrideText = TextTwo
    /\ calls[1].overrides # EmptyOverrides
    /\ playlistItems = SomeItems(calls[1].items)
    /\ playlistItems.value[1].track.name = <<"renamed">>

\* C17: in what an invocation commits, an entry whose canonical URL is a
\* key of the index with an item whose artist is not empty has one artist
\* and no more, with the item's artist as its name, however many artists the
\* API gave the track; the artist text of its front card is that artist.
C17_OverrideArtistAlone ==
    \A i \in Calls :
        calls[i].pc = "done" =>
            \A k \in 1..Len(calls[i].items) :
                LET t == calls[i].items[k].track
                    idx == calls[i].overrides
                IN  (/\ t.external_urls.spotify \in DOMAIN idx
                     /\ idx[t.external_urls.spotify].artist # <<>>)
                      => /\ Len(t.artists) = 1
                         /\ t.artists = <<[name |-> idx[t.external_urls.spotify].artist]>>
                         /\ FrontCard(calls[i].items[k], name).texts[3]
                               = idx[t.external_urls.spotify].artist

\* playlist A is on display, merged with an item that gives its second
\* track, which has two artists, the artist "solo"
C17_Witness ==
    \E i \in Calls :
        /\ calls[i].pc = "done"
        /\ calls[i].match1 = <<"A">>
        /\ playlistItems = SomeItems(calls[i].items)
        /\ Len(ApiEntry(<<"A">>, 2).track.artists) = 2
        /\ <<TrackPrefix, "A", "2">> \in DOMAIN calls[i].overrides
        /\ calls[i].overrides[<<TrackPrefix, "A", "2">>] = ObjectOf("oArtist")
        /\ calls[i].items[2].track.artists = <<[name |-> <<"solo">>]>>

\* C18: a step that changes the override text, the stored override value,
\* the error message, the display name, the code type or whether the
\* advanced options show leaves the displayed list as it is; the displayed
\* list changes only in a step in which the last page of an invocation
\* arrives, and then to that invocation's playlist merged with the override
\* value stored at that step.
C18_OnlyCommitChangesList ==
    [][/\ (\/ overrideText' # overrideText
           \/ overrideJsonRef' # overrideJsonRef
           \/ overrideJsonErrorMessage' # overrideJsonErrorMessage
           \/ name' # name
           \/ codeType' # codeType
           \/ showAdvancedOptions' # showAdvancedOptions)
             => playlistItems' = playlistItems
       /\ playlistItems' # playlistItems =>
             \E i \in Calls :
                 /\ calls[i].pc = "awaiting"
                 /\ calls'[i].pc = "done"
                 /\ overrideJsonRef' = overrideJsonRef
                 /\ playlistItems' =
                       SomeItems(MergedWith(calls[i].match1, overrideJsonRef))]_vars

\* The list on display is what the first invocation committed with the
\* first text: its first track has that text's name and its second track
\* the fetched one.  Since then the second text, which names the second
\* track, was entered, and a name and the other code type are set and the
\* advanced options hidden.
C18_Witness ==
    /\ calls[1].pc = "done"
    /\ playlistItems = SomeItems(calls[1].items)
    /\ calls[1].overrides =
          IndexOverrides(ForIn(JSONParse(TextOne).value), Len(ForIn(JSONParse(TextOne).value)))
    /\ playlistItems.value[1].track.name = <<"hurra">>
    /\ overrideJsonRef = JSONParse(TextTwo).value
    /\ ObjectOf("oLast").name # playlistItems.value[2].track.name
    /\ playlistItems.value[2].track.name = ApiEntry(<<"B">>, 2).track.name
    /\ name = <<"Quiz">>
    /\ codeType = "spotify"
    /\ ~showAdvancedOptions

====
